---- MODULE Spec2Model ----
(***************************************************************************)
(* Composite portfolio model of builder.py (Position, Portfolio,           *)
(* PortfolioBuilder) and of portfolio.py (Position, Portfolio).            *)
(*                                                                         *)
(* Python objects are heap cells: a Position or Portfolio object is its    *)
(* index in a heap sequence, so two references to one object are one       *)
(* index.  Python floats are modelled as exact rationals <<num, den>>,     *)
(* den > 0, in lowest terms (rounding of binary64 is abstracted away).     *)
(***************************************************************************)
EXTENDS Integers, Sequences, FiniteSets, TLC

VARIABLES
    position,     \* builder.py heap of Position objects: Seq of [symbol, quantity, price]
    portfolio,    \* builder.py heap of Portfolio objects: Seq of [name, owner, positions, sub_portfolios]
    builder,      \* heap of PortfolioBuilder objects: builder[b] is the index of b._portfolio
    built,        \* the Portfolio objects build() has returned to the caller
    pfPosition,   \* portfolio.py heap of Position objects: Seq of [symbol, quantity, price]
    pfComponents, \* portfolio.py: the list object that is the default value of `components`
    pfCache,      \* portfolio.py: pfCache[pf][s] is the Position pf._position_cache[s], 0 when absent
    last,         \* the last call made: its operation, arguments, what it found and how it ended
    nOps          \* the number of calls made so far

vars == <<position, portfolio, builder, built, pfPosition, pfComponents, pfCache, last, nOps>>

builderVars == <<position, portfolio, builder, built>>
pfVars == <<pfPosition, pfComponents, pfCache>>

---------------------------------------------------------------------------
(* Bounds of the model.                                                    *)

MaxNodes == 5    \* Portfolio objects ever allocated
MaxPos == 3      \* Position objects ever stored in a builder.py heap
MaxOps == 4      \* calls in one run of the tree specification
MaxTrades == 3   \* calls in one run of the trade specification
MaxPfPos == 2    \* Position objects ever stored in the portfolio.py heap

Symbols == {"AAPL", "MSFT"}
Owners == {"ann"}
Pfs == {1, 2}

\* The quantities and prices the callers of the trade specification pass
\* (integers, as rationals below).
TradeSymbols == {"AAPL"}
TradeQtys == {-3, -1, 0, 1, 2}
TradePrices == {0, 1, 3}
\* the trades of the tree specification: <<symbol, quantity, price>>
TreeTrades == {<<"AAPL", 1, 1>>, <<"AAPL", -2, 2>>, <<"MSFT", 2, 3>>}

---------------------------------------------------------------------------
(* Exact rational arithmetic standing for Python's float operators.        *)

Abs(n) == IF n < 0 THEN -n ELSE n

RECURSIVE GCD(_, _)
GCD(a, b) == IF b = 0 THEN a ELSE GCD(b, a % b)

\* n/d in lowest terms with a positive denominator
Norm(n, d) ==
    IF d = 1 THEN <<n, 1>>
    ELSE LET s == IF d < 0 THEN -1 ELSE 1
             g == GCD(Abs(n), Abs(d))
         IN  <<(s * n) \div g, (s * d) \div g>>

R(n) == <<n, 1>>
Zero == R(0)

RAdd(a, b) == Norm(a[1] * b[2] + b[1] * a[2], a[2] * b[2])
RMul(a, b) == Norm(a[1] * b[1], a[2] * b[2])
RDiv(a, b) == Norm(a[1] * b[2], a[2] * b[1])
RIsZero(a) == a[1] = 0
RNegative(a) == a[1] < 0

None == <<>>

---------------------------------------------------------------------------
(* builder.py: Position and Portfolio.                                     *)

\* Position.__init__
NewPosition(symbol, quantity, price) ==
    [symbol |-> symbol, quantity |-> quantity, price |-> price]

\* Portfolio.__init__
NewPortfolio(name, owner) ==
    [name |-> name, owner |-> owner, positions |-> <<>>, sub_portfolios |-> <<>>]

\* An average that forgets to weight the old price by the old quantity.
VwapUnweighted(old_qty, old_vwap, trade_qty, trade_price) ==
    LET new_qty == RAdd(old_qty, trade_qty)
    IN  IF RIsZero(new_qty) THEN <<Zero, Zero>>
        ELSE IF RNegative(RMul(old_qty, new_qty)) THEN <<trade_price, trade_price>>
        ELSE <<new_qty,
               RDiv(RAdd(old_vwap, RMul(trade_qty, trade_price)), new_qty)>>

\* Portfolio._vwap of builder.py: <<new quantity, new price>>
Vwap(old_qty, old_vwap, trade_qty, trade_price) ==
    LET new_qty == RAdd(old_qty, trade_qty)
    IN  IF RIsZero(new_qty) THEN <<Zero, Zero>>
        ELSE IF RNegative(RMul(old_qty, new_qty)) THEN <<trade_price, trade_price>>
        ELSE <<new_qty,
               RDiv(RAdd(RMul(old_qty, old_vwap), RMul(trade_qty, trade_price)), new_qty)>>


\* The three heaps of builder.py as one value, threaded through the operations.
Heap == [position |-> position, portfolio |-> portfolio, builder |-> builder]

SeqRange(s) == {s[i] : i \in DOMAIN s}

\* s without its first element equal to x (list.remove, del d[k]); s when there is none
RemoveFirst(s, x) ==
    IF x \notin SeqRange(s) THEN s
    ELSE LET i == CHOOSE k \in DOMAIN s : s[k] = x /\ \A j \in 1..(k - 1) : s[j] # x
         IN  SubSeq(s, 1, i - 1) \o SubSeq(s, i + 1, Len(s))

\* self.positions.get(symbol): the Position object n holds under `symbol`, 0 for None
PositionsGet(H, n, symbol) ==
    LET held == {c \in SeqRange(H.portfolio[n].positions) : H.position[c].symbol = symbol}
    IN  IF held = {} THEN 0 ELSE CHOOSE c \in held : TRUE

\* Portfolio.add with a Position that stores a first trade of quantity 0 too.
PortfolioAddKeepsZero(H, n, c) ==
    LET symbol == H.position[c].symbol
        pos == PositionsGet(H, n, symbol)
    IN  IF pos # 0
        THEN LET v == Vwap(H.position[pos].quantity, H.position[pos].price,
                           H.position[c].quantity, H.position[c].price)
             IN  IF RIsZero(v[1])
                 THEN [H EXCEPT !.portfolio[n].positions = RemoveFirst(@, pos)]
                 ELSE [H EXCEPT !.position[pos].quantity = v[1],
                                !.position[pos].price = v[2]]
        ELSE [H EXCEPT !.portfolio[n].positions = Append(@, c)]

\* Portfolio.add with a Position that updates a closed position instead of deleting it.
PortfolioAddKeepsClosed(H, n, c) ==
    LET symbol == H.position[c].symbol
        pos == PositionsGet(H, n, symbol)
    IN  IF pos # 0
        THEN LET v == Vwap(H.position[pos].quantity, H.position[pos].price,
                           H.position[c].quantity, H.position[c].price)
             IN  [H EXCEPT !.position[pos].quantity = v[1],
                           !.position[pos].price = v[2]]
        ELSE IF ~RIsZero(H.position[c].quantity)
             THEN [H EXCEPT !.portfolio[n].positions = Append(@, c)]
             ELSE H

\* Portfolio.add(component), component the Position object c
PortfolioAdd(H, n, c) ==
    LET symbol == H.position[c].symbol
        pos == PositionsGet(H, n, symbol)
    IN  IF pos # 0
        THEN LET v == Vwap(H.position[pos].quantity, H.position[pos].price,
                           H.position[c].quantity, H.position[c].price)
             IN  IF RIsZero(v[1])
                 THEN [H EXCEPT !.portfolio[n].positions = RemoveFirst(@, pos)]
                 ELSE [H EXCEPT !.position[pos].quantity = v[1],
                                !.position[pos].price = v[2]]
        ELSE IF ~RIsZero(H.position[c].quantity)
             THEN [H EXCEPT !.portfolio[n].positions = Append(@, c)]
             ELSE H

\* Portfolio.add(component), component the Portfolio object m
PortfolioAddSub(H, n, m) ==
    [H EXCEPT !.portfolio[n].sub_portfolios = Append(@, m)]

\* Portfolio.remove(component), component a Position of symbol `symbol`
PortfolioRemovePosition(H, n, symbol) ==
    LET pos == PositionsGet(H, n, symbol)
    IN  IF pos # 0
        THEN [H EXCEPT !.portfolio[n].positions = RemoveFirst(@, pos)]
        ELSE H

\* Portfolio.remove that passes over a Portfolio it does not hold, as it does a Position.
PortfolioRemoveNeverRaises(H, n, m) == FALSE

\* Whether Portfolio.remove(m) on n raises: list.remove raises ValueError when m is no element
PortfolioRemoveRaises(H, n, m) == m \notin SeqRange(H.portfolio[n].sub_portfolios)

\* Portfolio.remove(component), component the Portfolio object m
PortfolioRemoveSub(H, n, m) ==
    IF PortfolioRemoveRaises(H, n, m) THEN H
    ELSE [H EXCEPT !.portfolio[n].sub_portfolios = RemoveFirst(@, m)]

\* A Position object created for one call: it stays on the heap only when a
\* Portfolio has stored it (otherwise nothing refers to it once the call returns).
Allocate(H, symbol, quantity, price) ==
    [H EXCEPT !.position = Append(@, NewPosition(symbol, quantity, price))]

Release(H, c) ==
    IF \/ c # Len(H.position)
       \/ \E n \in DOMAIN H.portfolio : c \in SeqRange(H.portfolio[n].positions)
    THEN H
    ELSE [H EXCEPT !.position = SubSeq(@, 1, c - 1)]

---------------------------------------------------------------------------
(* builder.py: the queries of the composite.                               *)

\* market_price.get(symbol, 0.0): market_price maps each symbol to a price or to None
MarketPriceGet(market_price, symbol) ==
    IF market_price[symbol] = None THEN Zero ELSE market_price[symbol]

\* Position.get_value
PositionGetValue(H, c, market_price) ==
    RMul(H.position[c].quantity, MarketPriceGet(market_price, H.position[c].symbol))

RECURSIVE SumValues(_, _, _)
\* sum(pos.get_value(market_price) for pos in ...), over the Position objects of cs
SumValues(H, cs, market_price) ==
    IF cs = <<>> THEN Zero
    ELSE RAdd(PositionGetValue(H, Head(cs), market_price),
              SumValues(H, Tail(cs), market_price))

RECURSIVE GetPositions(_, _)
RECURSIVE ExtendPositions(_, _)
\* the loop of Portfolio.get_positions: positions.extend(subportfolio.get_positions())
ExtendPositions(H, subs) ==
    IF subs = <<>> THEN <<>>
    ELSE GetPositions(H, Head(subs)) \o ExtendPositions(H, Tail(subs))

\* Portfolio.get_positions that lists a sub-portfolio's own positions only.
GetPositionsShallow(H, n) ==
    LET Own(m) == H.portfolio[m].positions
        F[i \in 0..Len(H.portfolio[n].sub_portfolios)] ==
            IF i = 0 THEN <<>> ELSE F[i - 1] \o Own(H.portfolio[n].sub_portfolios[i])
    IN  H.portfolio[n].positions \o F[Len(H.portfolio[n].sub_portfolios)]

\* Portfolio.get_positions: the Position objects themselves, as a list
GetPositions(H, n) ==
    H.portfolio[n].positions \o ExtendPositions(H, H.portfolio[n].sub_portfolios)

RECURSIVE GetValue(_, _, _)
RECURSIVE SumSubValues(_, _, _)
\* sum(sp.get_value(market_price) for sp in self.sub_portfolios)
SumSubValues(H, subs, market_price) ==
    IF subs = <<>> THEN Zero
    ELSE RAdd(GetValue(H, Head(subs), market_price),
              SumSubValues(H, Tail(subs), market_price))

\* Portfolio.get_value that leaves the sub-portfolios out.
GetValueOwnOnly(H, n, market_price) ==
    SumValues(H, H.portfolio[n].positions, market_price)

\* Portfolio.get_value
GetValue(H, n, market_price) ==
    RAdd(SumValues(H, H.portfolio[n].positions, market_price),
         SumSubValues(H, H.portfolio[n].sub_portfolios, market_price))

\* Position._to_dict
PositionToDict(H, c) ==
    [symbol |-> H.position[c].symbol,
     quantity |-> H.position[c].quantity,
     price |-> H.position[c].price]

RECURSIVE ToDict(_, _)
\* Portfolio._to_dict: a dict holds the optional keys only when the field is non-empty
ToDict(H, n) ==
    LET self == H.portfolio[n]
        name == "name" :> self.name
        owner == IF self.owner # "" THEN "owner" :> self.owner ELSE <<>>
        positions ==
            IF self.positions # <<>>
            THEN "positions" :> [i \in DOMAIN self.positions |->
                                    PositionToDict(H, self.positions[i])]
            ELSE <<>>
        subs ==
            IF self.sub_portfolios # <<>>
            THEN "sub_portfolios" :> [i \in DOMAIN self.sub_portfolios |->
                                         ToDict(H, self.sub_portfolios[i])]
            ELSE <<>>
    IN  [k \in DOMAIN name \cup DOMAIN owner \cup DOMAIN positions \cup DOMAIN subs |->
            IF k = "name" THEN name[k]
            ELSE IF k = "owner" THEN owner[k]
            ELSE IF k = "positions" THEN positions[k]
            ELSE subs[k]]

---------------------------------------------------------------------------
(* builder.py: PortfolioBuilder.                                           *)

\* PortfolioBuilder.__init__: the new builder is the last of H.builder
BuilderInit(H, name) ==
    [H EXCEPT !.portfolio = Append(@, NewPortfolio(name, "")),
              !.builder = Append(@, Len(H.portfolio) + 1)]

\* PortfolioBuilder.set_owner
SetOwner(H, b, owner) ==
    [H EXCEPT !.portfolio[H.builder[b]].owner = owner]

\* PortfolioBuilder.add_position
BuilderAddPosition(H, b, symbol, quantity, price) ==
    LET H1 == Allocate(H, symbol, quantity, price)
        c == Len(H1.position)
    IN  Release(PortfolioAdd(H1, H1.builder[b], c), c)

\* PortfolioBuilder.build that hands out the node and keeps building on it.
BuildKeepsNode(H, b) == H

\* PortfolioBuilder.build: the node returned is H.builder[b], the builder gets a fresh one
Build(H, b) ==
    [H EXCEPT !.portfolio = Append(@, NewPortfolio("", "")),
              !.builder[b] = Len(H.portfolio) + 1]

\* add_subportfolio that attaches the child builder's node without building it.
AddSubportfolioUnbuilt(H, b, child) ==
    PortfolioAddSub(H, H.builder[b], H.builder[child])

\* PortfolioBuilder.add_subportfolio: self._portfolio is read after builder.build()
AddSubportfolio(H, b, child) ==
    LET sub == H.builder[child]
        H1 == Build(H, child)
    IN  PortfolioAddSub(H1, H1.builder[b], sub)

\* data.get(key, default)
DictGet(data, key, default) ==
    IF key \in DOMAIN data THEN data[key] ELSE default

RECURSIVE AddPositionsFrom(_, _, _)
\* the loop of build_recursive over data.get("positions", [])
AddPositionsFrom(H, b, list) ==
    IF list = <<>> THEN H
    ELSE AddPositionsFrom(
             BuilderAddPosition(H, b, Head(list).symbol, Head(list).quantity,
                                Head(list).price),
             b, Tail(list))

RECURSIVE BuildRecursive(_, _)
RECURSIVE AddSubportfoliosFrom(_, _, _)
\* the loop of build_recursive over data.get("sub_portfolios", [])
AddSubportfoliosFrom(H, b, list) ==
    IF list = <<>> THEN H
    ELSE LET sub == BuildRecursive(H, Head(list))
         IN  AddSubportfoliosFrom(AddSubportfolio(sub.heap, b, sub.builder), b, Tail(list))

\* build_recursive of from_dict: the heap afterwards and the builder it returns
BuildRecursive(H, data) ==
    LET H0 == BuilderInit(H, DictGet(data, "name", ""))
        b == Len(H0.builder)
        H1 == IF "owner" \in DOMAIN data THEN SetOwner(H0, b, data["owner"]) ELSE H0
        H2 == AddPositionsFrom(H1, b, DictGet(data, "positions", <<>>))
        H3 == AddSubportfoliosFrom(H2, b, DictGet(data, "sub_portfolios", <<>>))
    IN  [heap |-> H3, builder |-> b]

\* PortfolioBuilder.from_dict that does not read the owner back.
FromDictDropsOwner(H, data) ==
    LET r == BuildRecursive(H, [k \in DOMAIN data \ {"owner"} |-> data[k]])
    IN  [heap |-> Build(r.heap, r.builder), root |-> r.heap.builder[r.builder]]

\* PortfolioBuilder.from_dict: the heap afterwards and the Portfolio it returns
FromDict(H, data) ==
    LET r == BuildRecursive(H, data)
    IN  [heap |-> Build(r.heap, r.builder), root |-> r.heap.builder[r.builder]]

---------------------------------------------------------------------------
(* portfolio.py: Portfolio over the list `_components` and the dict         *)
(* `_position_cache`.  Every Portfolio made without a `components`          *)
(* argument holds the one list object that is the parameter's default.      *)

PfHeap == [position |-> pfPosition, components |-> pfComponents, cache |-> pfCache]

\* A merge that takes the price of the last trade instead of averaging.
PfVwapLastPrice(old_qty, old_vwap, trade_qty, trade_price) ==
    LET new_qty == RAdd(old_qty, trade_qty)
    IN  IF RIsZero(new_qty) THEN <<Zero, Zero>>
        ELSE IF RNegative(RMul(old_qty, new_qty)) THEN <<trade_price, trade_price>>
        ELSE <<new_qty, trade_price>>

\* Portfolio._vwap of portfolio.py: <<new quantity, new price>>
PfVwap(old_qty, old_vwap, trade_qty, trade_price) ==
    LET new_qty == RAdd(old_qty, trade_qty)
    IN  IF RIsZero(new_qty) THEN <<Zero, Zero>>
        ELSE IF RNegative(RMul(old_qty, new_qty)) THEN <<trade_price, trade_price>>
        ELSE <<new_qty,
               RDiv(RAdd(RMul(old_qty, old_vwap), RMul(trade_qty, trade_price)), new_qty)>>

\* A Position object of portfolio.py nothing refers to any more leaves the heap
\* when it is the newest one.
PfRelease(PH, c) ==
    IF \/ c # Len(PH.position)
       \/ c \in SeqRange(PH.components)
       \/ \E pf \in Pfs, s \in Symbols : PH.cache[pf][s] = c
    THEN PH
    ELSE [PH EXCEPT !.position = SubSeq(@, 1, c - 1)]

\* add_position that makes the new Position from the trade itself and then
\* merges the trade into it.
PfAddPositionSeeded(PH, pf, symbol, quantity, price) ==
    LET cached == PH.cache[pf][symbol]
        pos == IF cached = 0 THEN Len(PH.position) + 1 ELSE cached
        PH1 == IF cached = 0
               THEN [PH EXCEPT !.position = Append(@, NewPosition(symbol, quantity, price)),
                               !.cache[pf][symbol] = pos,
                               !.components = Append(@, pos)]
               ELSE PH
        v == PfVwap(PH1.position[pos].quantity, PH1.position[pos].price, quantity, price)
    IN  IF RIsZero(v[1])
        THEN LET PH2 == [PH1 EXCEPT !.cache[pf][symbol] = 0]
             IN  IF pos \in SeqRange(PH2.components)
                 THEN [heap |-> PfRelease([PH2 EXCEPT !.components = RemoveFirst(@, pos)], pos),
                       raised |-> "none"]
                 ELSE [heap |-> PH2, raised |-> "ValueError"]
        ELSE [heap |-> [PH1 EXCEPT !.position[pos].quantity = v[1],
                                   !.position[pos].price = v[2]],
              raised |-> "none"]

\* Portfolio.add_position: the heap afterwards and the exception raised, if any
PfAddPosition(PH, pf, symbol, quantity, price) ==
    LET cached == PH.cache[pf][symbol]
        pos == IF cached = 0 THEN Len(PH.position) + 1 ELSE cached
        PH1 == IF cached = 0
               THEN [PH EXCEPT !.position = Append(@, NewPosition(symbol, Zero, Zero)),
                               !.cache[pf][symbol] = pos,
                               !.components = Append(@, pos)]
               ELSE PH
        v == PfVwap(PH1.position[pos].quantity, PH1.position[pos].price, quantity, price)
    IN  IF RIsZero(v[1])
        THEN LET PH2 == [PH1 EXCEPT !.cache[pf][symbol] = 0]
             IN  IF pos \in SeqRange(PH2.components)
                 THEN [heap |-> PfRelease([PH2 EXCEPT !.components = RemoveFirst(@, pos)], pos),
                       raised |-> "none"]
                 ELSE [heap |-> PH2, raised |-> "ValueError"]
        ELSE [heap |-> [PH1 EXCEPT !.position[pos].quantity = v[1],
                                   !.position[pos].price = v[2]],
              raised |-> "none"]

\* Portfolio.remove(component), component the Position object c
PfRemove(PH, pf, c) ==
    IF c \in SeqRange(PH.components)
    THEN [heap |-> [PH EXCEPT !.components = RemoveFirst(@, c)], raised |-> "none"]
    ELSE [heap |-> PH, raised |-> "ValueError"]

\* Portfolio.get_positions of portfolio.py (every component here is a Position)
PfGetPositions(PH, pf) == PH.components

---------------------------------------------------------------------------
(* The calls a client makes, one action each.                              *)

\* The record of a call: what was called on which object (node) with which
\* arguments (arg: a Portfolio or Position argument, or the Position object a trade
\* found under its symbol, 0 for none), the (quantity, price) it found under the
\* symbol (None when absent), and the exception it raised ("none" when it returned).
Call(op, node, arg, symbol, quantity, price, old, raised) ==
    [op |-> op, node |-> node, arg |-> arg, symbol |-> symbol, quantity |-> quantity,
     price |-> price, old |-> old, raised |-> raised]

NoCall == Call("init", 0, 0, "", Zero, Zero, None, "none")

SetHeap(H) ==
    /\ position' = H.position
    /\ portfolio' = H.portfolio
    /\ builder' = H.builder

SetPfHeap(PH) ==
    /\ pfPosition' = PH.position
    /\ pfComponents' = PH.components
    /\ pfCache' = PH.cache

\* the (quantity, price) n holds under `symbol`, None when it holds none
Held(H, n, symbol) ==
    LET c == PositionsGet(H, n, symbol)
    IN  IF c = 0 THEN None ELSE <<H.position[c].quantity, H.position[c].price>>

\* the (quantity, price) of the Position pf._position_cache holds under `symbol`
PfHeld(PH, pf, symbol) ==
    LET c == PH.cache[pf][symbol]
    IN  IF c = 0 THEN None ELSE <<PH.position[c].quantity, PH.position[c].price>>

RECURSIVE Closure(_, _)
Closure(H, nodes) ==
    LET more == nodes \cup UNION {SeqRange(H.portfolio[n].sub_portfolios) : n \in nodes}
    IN  IF more = nodes THEN nodes ELSE Closure(H, more)

\* the Portfolio objects a caller can reach from the ones build() returned
Reachable == Closure(Heap, built)

ASetOwner(b, owner) ==
    /\ nOps < MaxOps
    /\ SetHeap(SetOwner(Heap, b, owner))
    /\ last' = Call("set_owner", builder[b], 0, owner, Zero, Zero, None, "none")
    /\ nOps' = nOps + 1
    /\ UNCHANGED <<built, pfVars>>

ABuilderAddPosition(b, symbol, quantity, price, bound) ==
    /\ nOps < bound
    /\ PositionsGet(Heap, builder[b], symbol) # 0 \/ Len(position) < MaxPos
    /\ SetHeap(BuilderAddPosition(Heap, b, symbol, R(quantity), R(price)))
    /\ last' = Call("add_position", builder[b], PositionsGet(Heap, builder[b], symbol),
                    symbol, R(quantity), R(price),
                    Held(Heap, builder[b], symbol), "none")
    /\ nOps' = nOps + 1
    /\ UNCHANGED <<built, pfVars>>

AAddSubportfolio(b, child) ==
    /\ nOps < MaxOps
    /\ Len(portfolio) < MaxNodes
    /\ SetHeap(AddSubportfolio(Heap, b, child))
    /\ last' = Call("add_subportfolio", builder[b], builder[child], "", Zero, Zero, None, "none")
    /\ nOps' = nOps + 1
    /\ UNCHANGED <<built, pfVars>>

ABuild(b, bound) ==
    /\ nOps < bound
    /\ Len(portfolio) < MaxNodes
    /\ SetHeap(Build(Heap, b))
    /\ built' = built \cup {builder[b]}
    /\ last' = Call("build", builder[b], 0, "", Zero, Zero, None, "none")
    /\ nOps' = nOps + 1
    /\ UNCHANGED pfVars

\* Portfolio.add(Position(symbol, quantity, price)) on a node the caller holds
APortfolioAdd(n, symbol, quantity, price, bound) ==
    /\ nOps < bound
    /\ PositionsGet(Heap, n, symbol) # 0 \/ Len(position) < MaxPos
    /\ LET H1 == Allocate(Heap, symbol, R(quantity), R(price))
           c == Len(H1.position)
       IN  SetHeap(Release(PortfolioAdd(H1, n, c), c))
    /\ last' = Call("add", n, PositionsGet(Heap, n, symbol), symbol, R(quantity), R(price),
                    Held(Heap, n, symbol), "none")
    /\ nOps' = nOps + 1
    /\ UNCHANGED <<built, pfVars>>

\* Portfolio.remove(Position(symbol, ...)) on a node the caller holds
APortfolioRemovePosition(n, symbol, bound) ==
    /\ nOps < bound
    /\ SetHeap(PortfolioRemovePosition(Heap, n, symbol))
    /\ last' = Call("remove_position", n, 0, symbol, Zero, Zero, Held(Heap, n, symbol), "none")
    /\ nOps' = nOps + 1
    /\ UNCHANGED <<built, pfVars>>

\* Portfolio.remove(m), m a Portfolio the caller holds
APortfolioRemoveSub(n, m) ==
    /\ nOps < MaxOps
    /\ SetHeap(PortfolioRemoveSub(Heap, n, m))
    /\ last' = Call("remove", n, m, "", Zero, Zero, None,
                    IF PortfolioRemoveRaises(Heap, n, m) THEN "ValueError" ELSE "none")
    /\ nOps' = nOps + 1
    /\ UNCHANGED <<built, pfVars>>

\* portfolio.py: pf.add_position(symbol, quantity, price)
APfAddPosition(pf, symbol, quantity, price) ==
    /\ nOps < MaxTrades
    /\ pfCache[pf][symbol] # 0 \/ Len(pfPosition) < MaxPfPos
    /\ LET r == PfAddPosition(PfHeap, pf, symbol, R(quantity), R(price))
       IN  /\ SetPfHeap(r.heap)
           /\ last' = Call("pf_add_position", pf, pfCache[pf][symbol], symbol,
                           R(quantity), R(price),
                           PfHeld(PfHeap, pf, symbol), r.raised)
    /\ nOps' = nOps + 1
    /\ UNCHANGED builderVars

\* portfolio.py: pf.remove(c), c a Position object the caller got from get_positions()
APfRemove(pf, c) ==
    /\ nOps < MaxTrades
    /\ LET r == PfRemove(PfHeap, pf, c)
       IN  /\ SetPfHeap(r.heap)
           /\ last' = Call("pf_remove", pf, c, pfPosition[c].symbol, Zero, Zero,
                           PfHeld(PfHeap, pf, pfPosition[c].symbol), r.raised)
    /\ nOps' = nOps + 1
    /\ UNCHANGED builderVars

---------------------------------------------------------------------------
(* The specifications.                                                     *)

EmptyHeap == [position |-> <<>>, portfolio |-> <<>>, builder |-> <<>>]

InitPf ==
    /\ pfPosition = <<>>
    /\ pfComponents = <<>>
    /\ pfCache = [pf \in Pfs |-> [s \in Symbols |-> 0]]

\* Two builders, PortfolioBuilder("p") and PortfolioBuilder("q").
Init ==
    /\ LET H == BuilderInit(BuilderInit(EmptyHeap, "p"), "q")
       IN  position = H.position /\ portfolio = H.portfolio /\ builder = H.builder
    /\ built = {}
    /\ InitPf
    /\ last = NoCall
    /\ nOps = 0

Next ==
    \/ \E b \in DOMAIN builder, owner \in Owners : ASetOwner(b, owner)
    \/ \E b \in DOMAIN builder, t \in TreeTrades :
           ABuilderAddPosition(b, t[1], t[2], t[3], MaxOps)
    \/ \E b \in DOMAIN builder, child \in DOMAIN builder : AAddSubportfolio(b, child)
    \/ \E b \in DOMAIN builder : ABuild(b, MaxOps)
    \/ \E n \in Reachable, t \in TreeTrades :
           APortfolioAdd(n, t[1], t[2], t[3], MaxOps)
    \/ \E n \in Reachable, s \in Symbols : APortfolioRemovePosition(n, s, MaxOps)
    \/ \E n \in Reachable, m \in Reachable : APortfolioRemoveSub(n, m)

Spec == Init /\ [][Next]_vars

\* One builder, PortfolioBuilder("p"), and two Portfolio objects of portfolio.py,
\* trading on wider quantities and prices.
InitTrade ==
    /\ LET H == BuilderInit(EmptyHeap, "p")
       IN  position = H.position /\ portfolio = H.portfolio /\ builder = H.builder
    /\ built = {}
    /\ InitPf
    /\ last = NoCall
    /\ nOps = 0

\* builder.py and portfolio.py share no state: a run calls into one of them.
PfOps == {"pf_add_position", "pf_remove"}

NextTrade ==
    \/ \E s \in TradeSymbols, q \in TradeQtys, p \in TradePrices :
           last.op \notin PfOps /\ ABuilderAddPosition(1, s, q, p, MaxTrades)
    \/ last.op \notin PfOps /\ ABuild(1, MaxTrades)
    \/ \E n \in built, s \in TradeSymbols, q \in TradeQtys, p \in TradePrices :
           last.op \notin PfOps /\ APortfolioAdd(n, s, q, p, MaxTrades)
    \/ \E n \in built, s \in TradeSymbols :
           last.op \notin PfOps /\ APortfolioRemovePosition(n, s, MaxTrades)
    \/ \E pf \in Pfs, s \in TradeSymbols, q \in TradeQtys, p \in TradePrices :
           last.op \in PfOps \cup {"init"} /\ APfAddPosition(pf, s, q, p)
    \/ \E pf \in Pfs, c \in DOMAIN pfPosition :
           last.op \in PfOps \cup {"init"} /\ APfRemove(pf, c)

SpecTrade == InitTrade /\ [][NextTrade]_vars

---------------------------------------------------------------------------
(* Trade merging: C1 to C5, under SpecTrade.                               *)

BuilderAddOps == {"add_position", "add"}
AddOps == BuilderAddOps \cup {"pf_add_position"}

\* what the node of the last call holds under the symbol of the last call
StoredNow ==
    IF last.op \in BuilderAddOps
    THEN Held(Heap, last.node, last.symbol)
    ELSE PfHeld(PfHeap, last.node, last.symbol)

\* the last call merged a trade into a position the node already held
Merged == last.op \in AddOps /\ last.old # None

MergedQty == RAdd(last.old[1], last.quantity)

\* C1: a trade that changes the sign of the held quantity leaves the position
\* (old_qty + trade_qty, trade_price).
C1_FlipKeepsSummedQuantity ==
    (Merged /\ RNegative(RMul(last.old[1], MergedQty)))
        => StoredNow = <<MergedQty, last.price>>

\* C2: a trade that neither closes nor flips the held position leaves the
\* quantity old_qty + trade_qty at the volume-weighted average of the two prices.
C2_AccumulationIsVwap ==
    (Merged /\ ~RIsZero(MergedQty) /\ ~RNegative(RMul(last.old[1], MergedQty)))
        => StoredNow =
             <<MergedQty,
               RDiv(RAdd(RMul(last.old[1], last.old[2]), RMul(last.quantity, last.price)),
                    MergedQty)>>

\* a merge without close or flip whose price is neither the old nor the trade price
C2_Witness ==
    /\ Merged
    /\ ~RIsZero(MergedQty) /\ ~RNegative(RMul(last.old[1], MergedQty))
    /\ StoredNow # None
    /\ StoredNow[1] = MergedQty
    /\ StoredNow[2] \notin {last.old[2], last.price}
    /\ last.op = "pf_add_position" \/ last.op = "add"

\* the last call applied a trade of quantity -q to a held quantity q
Closed == Merged /\ RIsZero(MergedQty)

C3_ClosedIsRemoved ==
    Closed =>
        /\ StoredNow = None
        /\ IF last.op \in BuilderAddOps
           THEN last.arg \notin SeqRange(GetPositions(Heap, last.node))
           ELSE last.arg \notin SeqRange(PfGetPositions(PfHeap, last.node))

\* a symbol a node does not hold comes back only by a trade for it at that node
C3_AbsentUntilTraded ==
    /\ \A n \in DOMAIN portfolio, s \in Symbols :
           (Held(Heap, n, s) = None /\ Held(Heap, n, s)' # None)
               => (last'.op \in BuilderAddOps /\ last'.node = n /\ last'.symbol = s)
    /\ \A pf \in Pfs, s \in Symbols :
           (PfHeld(PfHeap, pf, s) = None /\ PfHeld(PfHeap, pf, s)' # None)
               => (last'.op = "pf_add_position" /\ last'.node = pf /\ last'.symbol = s)

\* C3: a trade of quantity -q on a held quantity q removes the symbol's position
\* from the node and from its get_positions(), and the symbol stays absent until
\* a new trade for it arrives at the node.
C3_FullCloseRemoves == []C3_ClosedIsRemoved /\ [][C3_AbsentUntilTraded]_vars

\* Portfolio.add closed a held position with a trade at a price other than its own
C3_Witness ==
    /\ Closed
    /\ last.price # last.old[2]
    /\ StoredNow = None
    /\ last.op = "add"

\* C4: no Position held by a node has quantity 0.
C4_NoZeroQuantity ==
    /\ \A n \in DOMAIN portfolio : \A c \in SeqRange(portfolio[n].positions) :
           ~RIsZero(position[c].quantity)
    /\ \A c \in SeqRange(pfComponents) : ~RIsZero(pfPosition[c].quantity)
    /\ \A pf \in Pfs, s \in Symbols :
           pfCache[pf][s] # 0 => ~RIsZero(pfPosition[pfCache[pf][s]].quantity)

\* a trade of quantity 0 on a symbol the node did not hold
C4_Witness ==
    /\ last.op \in AddOps
    /\ last.old = None
    /\ RIsZero(last.quantity)
    /\ StoredNow = None

---------------------------------------------------------------------------
(* The tree: C6 to C10, under Spec.                                        *)

\* the Portfolio objects of the subtree of n, n included
Subtree(n) == Closure(Heap, {n})

\* the price lookups valuations are asked with: each symbol priced or missing
MarketPrices ==
    {[s \in Symbols |-> IF s = "AAPL" THEN a ELSE m] : a \in {None, R(2)}, m \in {None, R(5)}}

\* quantity * price of the Position object c, a missing price counting 0
Worth(c, market_price) ==
    IF market_price[position[c].symbol] = None THEN Zero
    ELSE RMul(position[c].quantity, market_price[position[c].symbol])

\* the sum of Worth over the positions of the Portfolio objects in `nodes`
SumOver(nodes, market_price) ==
    LET Own(m) ==
            LET F[i \in 0..Len(portfolio[m].positions)] ==
                    IF i = 0 THEN Zero
                    ELSE RAdd(F[i - 1], Worth(portfolio[m].positions[i], market_price))
            IN  F[Len(portfolio[m].positions)]
        G[k \in 0..Len(portfolio)] ==
            IF k = 0 THEN Zero
            ELSE IF k \in nodes THEN RAdd(G[k - 1], Own(k)) ELSE G[k - 1]
    IN  G[Len(portfolio)]

\* every entry of the position mappings in the subtree of n
Entries(n) ==
    UNION {{<<m, i>> : i \in DOMAIN portfolio[m].positions} : m \in Subtree(n)}

\* C6: get_value(prices) of a node is the sum of quantity * prices[symbol] over
\* the positions of its subtree, a symbol without a price counting 0.
C6_ValueIsSubtreeSum ==
    \A n \in DOMAIN portfolio :
        LET nodes == Subtree(n)
        IN  \A market_price \in MarketPrices :
                GetValue(Heap, n, market_price) = SumOver(nodes, market_price)

\* a node holding one symbol, a descendant holding the other, valued with a
\* lookup that misses the node's own symbol
C6_Witness ==
    \E n \in DOMAIN portfolio, m \in DOMAIN portfolio, market_price \in MarketPrices :
        /\ m \in Subtree(n) \ {n}
        /\ Held(Heap, n, "AAPL") # None
        /\ Held(Heap, m, "MSFT") # None
        /\ market_price["AAPL"] = None /\ market_price["MSFT"] # None
        /\ GetValue(Heap, n, market_price) = RMul(Held(Heap, m, "MSFT")[1], market_price["MSFT"])
        /\ ~RIsZero(GetValue(Heap, n, market_price))

RECURSIVE Concat(_)
Concat(lists) == IF lists = <<>> THEN <<>> ELSE Head(lists) \o Concat(Tail(lists))

\* C7: get_positions() of a node lists the node's own positions, then the
\* flattened positions of each child in child-list order, and so holds every
\* Position of the subtree exactly once and nothing else.
C7_FlattenIsPreOrder ==
    \A n \in DOMAIN portfolio :
        LET flat == GetPositions(Heap, n)
            subs == portfolio[n].sub_portfolios
        IN  /\ flat = portfolio[n].positions
                        \o Concat([i \in DOMAIN subs |-> GetPositions(Heap, subs[i])])
            /\ SeqRange(flat) = UNION {SeqRange(portfolio[m].positions) : m \in Subtree(n)}
            /\ Len(flat) = Cardinality(Entries(n))
            /\ \A i, j \in DOMAIN flat : i # j => flat[i] # flat[j]

\* a node with a position of its own and one in a grandchild
C7_Witness ==
    \E n \in DOMAIN portfolio :
        /\ portfolio[n].positions # <<>>
        /\ \E m \in SeqRange(portfolio[n].sub_portfolios) :
              \E g \in SeqRange(portfolio[m].sub_portfolios) :
                  portfolio[g].positions # <<>>
        /\ Len(GetPositions(Heap, n)) = 2

BuilderOps == {"set_owner", "add_position", "add_subportfolio", "build"}

\* the Portfolio objects a builder has handed over: returned by build(), or
\* attached as a child by add_subportfolio
HandedOver ==
    built \cup UNION {SeqRange(portfolio[n].sub_portfolios) : n \in DOMAIN portfolio}

\* the Position objects of the subtree of n
SubtreePositions(n) == UNION {SeqRange(portfolio[m].positions) : m \in Subtree(n)}

\* C8: build() returns the node under construction and gives the builder a fresh
\* empty one; no later builder operation changes a node handed over earlier, and
\* what build() returns shares no node and no position with an earlier result.
C8_BuilderResetStep ==
    last'.op \in BuilderOps =>
        /\ \A n \in HandedOver :
               /\ portfolio'[n] = portfolio[n]
               /\ \A c \in SeqRange(portfolio[n].positions) : position'[c] = position[c]
        /\ last'.op = "build" =>
               /\ built' = built \cup {last'.node}
               /\ \E b \in DOMAIN builder :
                      /\ builder[b] = last'.node
                      /\ builder'[b] \notin DOMAIN portfolio
                      /\ portfolio'[builder'[b]] = NewPortfolio("", "")
               /\ \A n \in built :
                      /\ Subtree(n) \cap Subtree(last'.node) = {}
                      /\ SubtreePositions(n) \cap SubtreePositions(last'.node) = {}

C8_BuilderReset == [][C8_BuilderResetStep]_vars

\* a second build() of one builder, both results holding a position
C8_Witness ==
    /\ last.op = "build"
    /\ Cardinality(built) = 2
    /\ \A n \in built : portfolio[n].positions # <<>>
    /\ \E n \in built : portfolio[n].name = ""

RECURSIVE TreeOf(_, _)
\* the tree under n by value: name, owner, the set of (symbol, quantity, price),
\* and the trees of the sub-portfolios in order
TreeOf(H, n) ==
    [name |-> H.portfolio[n].name,
     owner |-> H.portfolio[n].owner,
     positions |-> {<<H.position[c].symbol, H.position[c].quantity, H.position[c].price>> :
                       c \in SeqRange(H.portfolio[n].positions)},
     count |-> Len(H.portfolio[n].positions),
     sub_portfolios |-> [i \in DOMAIN H.portfolio[n].sub_portfolios |->
                            TreeOf(H, H.portfolio[n].sub_portfolios[i])]]

\* C9: from_dict(tree._to_dict()) is a new tree equal to the tree by value.
C9_RoundTrip ==
    \A n \in DOMAIN portfolio :
        LET r == FromDict(Heap, ToDict(Heap, n))
        IN  /\ r.root \notin DOMAIN portfolio
            /\ TreeOf(r.heap, r.root) = TreeOf(Heap, n)

\* a tree with an owner, a position and a sub-portfolio holding a position
C9_Witness ==
    \E n \in DOMAIN portfolio :
        /\ portfolio[n].owner = "ann"
        /\ portfolio[n].positions # <<>>
        /\ \E m \in SeqRange(portfolio[n].sub_portfolios) : portfolio[m].positions # <<>>
        /\ DOMAIN ToDict(Heap, n) = {"name", "owner", "positions", "sub_portfolios"}

\* C10: remove(m) on n raises when m is no direct child of n and changes
\* nothing; otherwise it takes exactly m out of n's children, in order.
C10_RemoveStep ==
    last'.op = "remove" =>
        LET n == last'.node
            m == last'.arg
            old == portfolio[n].sub_portfolios
            Other(x) == x # m
        IN  /\ position' = position
            /\ \A k \in DOMAIN portfolio : k # n => portfolio'[k] = portfolio[k]
            /\ DOMAIN portfolio' = DOMAIN portfolio
            /\ portfolio'[n].positions = portfolio[n].positions
            /\ IF \E i \in DOMAIN old : old[i] = m
               THEN /\ last'.raised = "none"
                    /\ portfolio'[n].sub_portfolios = SelectSeq(old, Other)
                    /\ Len(portfolio'[n].sub_portfolios) = Len(old) - 1
               ELSE /\ last'.raised = "ValueError"
                    /\ portfolio'[n] = portfolio[n]

C10_RemoveChild == [][C10_RemoveStep]_vars

\* remove() asked for a grandchild raises
C10_Witness ==
    /\ last.op = "remove"
    /\ last.raised = "ValueError"
    /\ \E m \in SeqRange(portfolio[last.node].sub_portfolios) :
           last.arg \in SeqRange(portfolio[m].sub_portfolios)

\* remove() took the first of two children out
C10_WitnessDirect ==
    /\ last.op = "remove"
    /\ last.raised = "none"
    /\ Len(portfolio[last.node].sub_portfolios) = 1
    /\ portfolio[last.node].sub_portfolios[1] > last.arg

---------------------------------------------------------------------------
(* Removing a position: C11, under SpecTrade.                              *)

\* remove(Position) of builder.py: without the symbol nothing changes, with it
\* exactly the symbol's entry leaves the node
C11_BuilderRemoveStep ==
    last'.op = "remove_position" =>
        LET n == last'.node
            pos == PositionsGet(Heap, n, last'.symbol)
            Other(c) == c # pos
        IN  /\ last'.raised = "none"
            /\ position' = position
            /\ \A k \in DOMAIN portfolio : k # n => portfolio'[k] = portfolio[k]
            /\ portfolio'[n].sub_portfolios = portfolio[n].sub_portfolios
            /\ portfolio'[n].positions = SelectSeq(portfolio[n].positions, Other)
            /\ pos # 0 => Len(portfolio'[n].positions) = Len(portfolio[n].positions) - 1

\* remove(Position) of portfolio.py: without the Position among the node's
\* positions nothing changes and nothing is raised, with it exactly that entry leaves
C11_PfRemoveStep ==
    last'.op = "pf_remove" =>
        LET c == last'.arg
            old == PfGetPositions(PfHeap, last'.node)
            Other(x) == x # c
        IN  /\ last'.raised = "none"
            /\ pfPosition' = pfPosition
            /\ PfGetPositions(PfHeap, last'.node)' = SelectSeq(old, Other)
            /\ c \in SeqRange(old) =>
                   Len(PfGetPositions(PfHeap, last'.node)') = Len(old) - 1

\* C11: removing a Position the node does not hold signals no error and
\* changes nothing; removing a held one deletes exactly that entry, in builder.py
\* and in portfolio.py.
C11_RemovePosition == [][C11_BuilderRemoveStep /\ C11_PfRemoveStep]_vars

---------------------------------------------------------------------------
(* Tree shape under the client's own add and remove: C12, under SpecGraph.  *)

\* Portfolio.add(m) on n, n and m Portfolio objects the caller holds
APortfolioAddSub(n, m) ==
    /\ nOps < MaxOps
    /\ SetHeap(PortfolioAddSub(Heap, n, m))
    /\ last' = Call("add_sub", n, m, "", Zero, Zero, None, "none")
    /\ nOps' = nOps + 1
    /\ UNCHANGED <<built, pfVars>>

\* Three Portfolio objects the caller made itself: Portfolio("a"), Portfolio("b"),
\* Portfolio("c").
InitGraph ==
    /\ position = <<>>
    /\ portfolio = <<NewPortfolio("a", ""), NewPortfolio("b", ""), NewPortfolio("c", "")>>
    /\ builder = <<>>
    /\ built = {}
    /\ InitPf
    /\ last = NoCall
    /\ nOps = 0

NextGraph ==
    \/ \E n \in DOMAIN portfolio, m \in DOMAIN portfolio : APortfolioAddSub(n, m)
    \/ \E n \in DOMAIN portfolio, m \in DOMAIN portfolio : APortfolioRemoveSub(n, m)

SpecGraph == InitGraph /\ [][NextGraph]_vars

\* the places m occupies in child lists: <<parent, index>>
ParentEdges(H, m) ==
    UNION {{<<n, i>> : i \in {j \in DOMAIN H.portfolio[n].sub_portfolios :
                                    H.portfolio[n].sub_portfolios[j] = m}} :
              n \in DOMAIN H.portfolio}

\* the Portfolio objects below n: its children, their children, and so on
Descendants(H, n) == Closure(H, SeqRange(H.portfolio[n].sub_portfolios))

\* the recursion of get_positions() and get_value() from n comes to an end:
\* it follows the child lists, and returns when no node below n is below itself
Terminates(H, n) == \A m \in Closure(H, {n}) : m \notin Descendants(H, m)

IsForest(H) ==
    \A m \in DOMAIN H.portfolio :
        /\ Cardinality(ParentEdges(H, m)) <= 1
        /\ m \notin Descendants(H, m)

\* C12: after any add(sub_portfolio) and remove calls every node is in at most
\* one child list, once, and below no node is the node itself, so that
\* get_positions() and get_value() terminate on every node.
C12_TreeShape ==
    /\ IsForest(Heap)
    /\ \A n \in DOMAIN portfolio : Terminates(Heap, n)

---------------------------------------------------------------------------
(* What a caller does with the objects it holds: C13 and C15, under        *)
(* SpecShare.                                                              *)

\* Position.update
PositionUpdate(H, c, quantity, price) ==
    [H EXCEPT !.position[c].quantity = quantity, !.position[c].price = price]

\* list.reverse() on the list get_positions() returned
Reverse(s) == [i \in DOMAIN s |-> s[Len(s) + 1 - i]]

\* Portfolio.add(c) on n, c a Position object the caller got from get_positions()
APortfolioAddHeld(n, c) ==
    /\ nOps < MaxOps
    /\ SetHeap(PortfolioAdd(Heap, n, c))
    /\ last' = Call("add_held", n, c, position[c].symbol, position[c].quantity,
                    position[c].price, Held(Heap, n, position[c].symbol), "none")
    /\ nOps' = nOps + 1
    /\ UNCHANGED <<built, pfVars>>

\* lst = n.get_positions(); lst[i].update(quantity, price)
AUpdateReturned(n, i, quantity, price) ==
    /\ nOps < MaxOps
    /\ i \in DOMAIN GetPositions(Heap, n)
    /\ LET c == GetPositions(Heap, n)[i]
       IN  /\ SetHeap(PositionUpdate(Heap, c, R(quantity), R(price)))
           /\ last' = Call("update_returned", n, c, position[c].symbol, R(quantity), R(price),
                           <<position[c].quantity, position[c].price>>, "none")
    /\ nOps' = nOps + 1
    /\ UNCHANGED <<built, pfVars>>

\* lst = n.get_positions(); then lst.reverse(), lst.pop(0) or lst.append(lst[0]):
\* the call record keeps the list the caller is left with
AMutateReturned(n, how) ==
    /\ nOps < MaxOps
    /\ GetPositions(Heap, n) # <<>>
    /\ LET lst == GetPositions(Heap, n)
           now == IF how = "reverse" THEN Reverse(lst)
                  ELSE IF how = "pop" THEN Tail(lst)
                  ELSE Append(lst, lst[1])
       IN  last' = Call("mutate_returned", n, 0, how, Zero, Zero, now, "none")
    /\ nOps' = nOps + 1
    /\ UNCHANGED <<builderVars, built, pfVars>>

ListMutations == {"reverse", "pop", "append"}

\* the (quantity, price) pairs a caller writes into a Position
UpdateValues == {<<5, 1>>, <<1, 0>>}

\* the trees a run starts from, as from_dict reads them
ShareDicts ==
    {[name |-> "p",
      positions |-> <<[symbol |-> "AAPL", quantity |-> R(1), price |-> R(1)]>>,
      sub_portfolios |-> <<[name |-> "q", positions |-> ps]>>] :
        ps \in {<<>>, <<[symbol |-> "MSFT", quantity |-> R(2), price |-> R(3)]>>}}

\* The caller holds the tree PortfolioBuilder.from_dict(data) returned.
InitShare ==
    /\ \E data \in ShareDicts :
           LET r == FromDict(EmptyHeap, data)
           IN  /\ position = r.heap.position
               /\ portfolio = r.heap.portfolio
               /\ builder = r.heap.builder
               /\ built = {r.root}
    /\ InitPf
    /\ last = NoCall
    /\ nOps = 0

NextShare ==
    \/ \E n \in Reachable, t \in TreeTrades : APortfolioAdd(n, t[1], t[2], t[3], MaxOps)
    \/ \E n \in Reachable, m \in built : \E c \in SeqRange(GetPositions(Heap, m)) :
           APortfolioAddHeld(n, c)
    \/ \E n \in Reachable, i \in 1..MaxPos, v \in UpdateValues :
           AUpdateReturned(n, i, v[1], v[2])
    \/ \E n \in Reachable, how \in ListMutations : AMutateReturned(n, how)

SpecShare == InitShare /\ [][NextShare]_vars

\* get_positions() of n by value: the (symbol, quantity, price) of each entry
PositionValues(H, n) ==
    LET lst == GetPositions(H, n)
    IN  [i \in DOMAIN lst |->
            <<H.position[lst[i]].symbol, H.position[lst[i]].quantity, H.position[lst[i]].price>>]

\* C13: nothing a caller does through the list get_positions() returned --
\* changing the list or the quantity and price of an entry -- changes what
\* get_positions() and get_value() return afterwards, on any node of the tree.
C13_SnapshotStep ==
    last'.op \in {"update_returned", "mutate_returned"} =>
        \A n \in Reachable :
            /\ PositionValues(Heap, n)' = PositionValues(Heap, n)
            /\ \A market_price \in MarketPrices :
                   GetValue(Heap, n, market_price)' = GetValue(Heap, n, market_price)

C13_SnapshotIsolation == [][C13_SnapshotStep]_vars

\* C15: a trade for symbol s at node n changes at most n's own entry for s:
\* n's other entries and its child list, and the positions and children of
\* every other node, stay as they were, also where they hold s too.
C15_FrameStep ==
    last'.op \in {"add", "add_held"} =>
        LET n == last'.node
            s == last'.symbol
            Others(c) == position[c].symbol # s
            OthersAfter(c) == position'[c].symbol # s
        IN  /\ \A k \in DOMAIN portfolio \ {n} :
                   /\ portfolio'[k] = portfolio[k]
                   /\ \A c \in SeqRange(portfolio[k].positions) : position'[c] = position[c]
            /\ portfolio'[n].sub_portfolios = portfolio[n].sub_portfolios
            /\ SelectSeq(portfolio'[n].positions, OthersAfter)
                   = SelectSeq(portfolio[n].positions, Others)
            /\ \A c \in SeqRange(portfolio[n].positions) :
                   position[c].symbol # s => position'[c] = position[c]

C15_TradeFrame == [][C15_FrameStep]_vars

---------------------------------------------------------------------------
(* Removal only by an exact close: C14, under SpecTrade.                    *)

\* the call before was the first trade for its symbol since the node lacked it,
\* and this call is the next trade for that symbol at that node: the quantities
\* traded since the symbol was absent are those of the two calls
SecondTrade ==
    /\ last.op \in AddOps /\ last.old = None /\ ~RIsZero(last.quantity)
    /\ last'.op \in AddOps /\ last'.old # None
    /\ last'.node = last.node /\ last'.symbol = last.symbol
    /\ (last.op \in BuilderAddOps) = (last'.op \in BuilderAddOps)

C14_ExactCloseStep ==
    /\ (last'.op \in AddOps /\ last'.old = None)
           => ((StoredNow' = None) = RIsZero(last'.quantity))
    /\ SecondTrade
           => ((StoredNow' = None) = RIsZero(RAdd(last.quantity, last'.quantity)))

\* C14: after a trade the symbol is absent from the node exactly when the
\* quantities traded since it was last absent add up to 0 (stated for the first
\* and the second trade since then, whose quantities the two calls give); a trade
\* that leaves another sum, a flip at any price >= 0 included, keeps the position.
C14_RemovedOnlyByExactClose == [][C14_ExactCloseStep]_vars

---------------------------------------------------------------------------
(* The two implementations on the same trades: C16, under SpecBoth.         *)

\* The same trade given to both: node.add(Position(symbol, quantity, price)) in
\* builder.py and pf.add_position(symbol, quantity, price) in portfolio.py.
ATradeBoth(n, pf, symbol, quantity, price) ==
    /\ nOps < MaxTrades
    /\ LET H1 == Allocate(Heap, symbol, R(quantity), R(price))
           c == Len(H1.position)
       IN  SetHeap(Release(PortfolioAdd(H1, n, c), c))
    /\ LET r == PfAddPosition(PfHeap, pf, symbol, R(quantity), R(price))
       IN  /\ SetPfHeap(r.heap)
           /\ last' = Call("trade_both", n, pf, symbol, R(quantity), R(price),
                           Held(Heap, n, symbol), r.raised)
    /\ nOps' = nOps + 1
    /\ UNCHANGED built

\* One empty node of each module: Portfolio("p") of builder.py and Portfolio("p")
\* of portfolio.py.
InitBoth ==
    /\ position = <<>>
    /\ portfolio = <<NewPortfolio("p", "")>>
    /\ builder = <<>>
    /\ built = {}
    /\ InitPf
    /\ last = NoCall
    /\ nOps = 0

NextBoth ==
    \E s \in TradeSymbols, q \in TradeQtys, p \in TradePrices : ATradeBoth(1, 1, s, q, p)

SpecBoth == InitBoth /\ [][NextBoth]_vars

\* the (symbol, quantity, price) of the Position objects of portfolio.py in list
PfListValues(PH, list) ==
    [i \in DOMAIN list |->
        <<PH.position[list[i]].symbol, PH.position[list[i]].quantity,
          PH.position[list[i]].price>>]

---------------------------------------------------------------------------
(* portfolio.py, two Portfolio objects and the cache: C17 and C19, under    *)
(* SpecTrade.                                                              *)

\* Portfolio.get_value of portfolio.py
PfGetValue(PH, pf, market_price) ==
    LET list == PH.components
        F[i \in 0..Len(list)] ==
            IF i = 0 THEN Zero
            ELSE RAdd(F[i - 1],
                      RMul(PH.position[list[i]].quantity,
                           MarketPriceGet(market_price, PH.position[list[i]].symbol)))
    IN  F[Len(list)]

\* C17: add_position and remove on one Portfolio made without a components
\* argument change nothing of what get_positions() and get_value() return on
\* another one made the same way.
C17_IsolationStep ==
    last'.op \in PfOps =>
        \A other \in Pfs \ {last'.node} :
            /\ PfGetPositions(PfHeap, other)' = PfGetPositions(PfHeap, other)
            /\ PfListValues(PfHeap, PfGetPositions(PfHeap, other))'
                   = PfListValues(PfHeap, PfGetPositions(PfHeap, other))
            /\ \A market_price \in MarketPrices :
                   PfGetValue(PfHeap, other, market_price)'
                       = PfGetValue(PfHeap, other, market_price)

C17_SeparateNodesIsolated == [][C17_IsolationStep]_vars

\* the Position objects the caches of the Portfolios hold
Cached(PH) == {PH.cache[pf][s] : pf \in Pfs, s \in Symbols} \ {0}

\* C19: the Position objects in _position_cache are exactly those in
\* _components (taken over the Portfolios that hold the list), one per symbol,
\* so that every trade add_position applies shows in get_positions() and
\* add_position never fails, after remove() either.
C19_CacheMatchesComponents ==
    /\ Cached(PfHeap) = SeqRange(pfComponents)
    /\ \A pf \in Pfs, s \in Symbols :
           pfCache[pf][s] # 0 =>
               /\ pfPosition[pfCache[pf][s]].symbol = s
               /\ pfCache[pf][s] \in SeqRange(PfGetPositions(PfHeap, pf))
    /\ last.op = "pf_add_position" => last.raised = "none"

---------------------------------------------------------------------------
(* Construction by the builder alone: C18, under SpecBuild.                 *)

\* PortfolioBuilder.from_dict(data): the builders it makes are its own and are
\* gone when it returns, the caller keeps the Portfolio returned
AFromDict(data) ==
    /\ nOps < MaxOps
    /\ Len(portfolio) < MaxNodes
    /\ Len(position) < MaxPos
    /\ LET r == FromDict(Heap, data)
       IN  /\ SetHeap([r.heap EXCEPT !.builder = builder])
           /\ built' = built \cup {r.root}
           /\ last' = Call("from_dict", r.root, 0, "", Zero, Zero, None, "none")
    /\ nOps' = nOps + 1
    /\ UNCHANGED pfVars

NextBuild ==
    \/ \E b \in DOMAIN builder, owner \in Owners : ASetOwner(b, owner)
    \/ \E b \in DOMAIN builder, t \in TreeTrades :
           ABuilderAddPosition(b, t[1], t[2], t[3], MaxOps)
    \/ \E b \in DOMAIN builder, child \in DOMAIN builder : AAddSubportfolio(b, child)
    \/ \E b \in DOMAIN builder : ABuild(b, MaxOps)
    \/ \E data \in ShareDicts : AFromDict(data)

SpecBuild == Init /\ [][NextBuild]_vars

\* C18: whatever the builders are asked to do -- add_position, set_owner, build,
\* add_subportfolio with any builder, itself or the same child again included,
\* from_dict -- every Portfolio is in at most one child list, once, and none is
\* below itself.
C18_BuilderYieldsTree == IsForest(Heap)

\* a builder was given itself as a child, twice, and was then built: the result
\* has one child, which has one child
C18_Witness ==
    /\ last.op = "build"
    /\ \E m \in DOMAIN portfolio, g \in DOMAIN portfolio :
           /\ portfolio[last.node].sub_portfolios = <<m>>
           /\ portfolio[m].sub_portfolios = <<g>>
           /\ portfolio[g].name = "p"
           /\ Cardinality({last.node, m, g}) = 3

====
